---- MODULE Spec2Model ----
(***************************************************************************)
(* Model of ktest (src/src/main.rs): a kong server that registers five     *)
(* Kontrollers with kroute and defines PrivateKontroller, the protected    *)
(* route whose kontrol is the authorization gate.                          *)
(*                                                                         *)
(* PrivateKontroller::kontrol and the route table of main are translated   *)
(* from the source.  The collaborators that live in the kong and           *)
(* kong_kontrollers crates (kroute's matching, is_admin, the account       *)
(* creation and login Kontrollers, the ErrorResponse constructors) are     *)
(* modelled at their boundary, from the specification and from what the    *)
(* tests in main.rs assert about them.                                     *)
(***************************************************************************)
EXTENDS Integers, Sequences, FiniteSets, TLC

\* ---------------------------------------------------------------- bounds
MaxUsers == 2
MaxClients == 1
MaxPosts == 1
MaxFlows == 2

Usernames == 1..MaxUsers
Clients == 1..MaxClients
Flows == 1..MaxFlows

\* the passwords the tests send: the one registered and a wrong one
Passwords == {"1234567890", "wrong_password"}

\* kong.kpassport = None
None == 0

\* the email test_subscribe_newsletter subscribes
Emails == {"test@example.com"}

Methods == {"Get", "Post"}
Paths == {"/accounts", "/login", "/blog", "/private", "/newsletter", "/missing"}

VARIABLES
    accounts,   \* rows of the accounts database: username -> [password, admin]
    storeUp,    \* whether a query of the accounts database can succeed
    cookie,     \* cookie[c]: the passport held in client c's cookie store
    registry,   \* the Kontrollers handed to kroute
    last,       \* the step taken last: the request handled and its response
    blogs,      \* rows of the blogs database: how many posts it holds
    newsletter, \* rows of the newsletter database: the emails subscribed
    flow,       \* flow[f]: the request a serving thread is handling, step by step
    held,       \* held[h]: the flows inside the Mutex of database handle h
    poisoned,   \* the handles whose Mutex a panicking holder poisoned
    loop,       \* the serving loop: "serving", "recovered" after a panic, "stopped"
    main,       \* where main stands, the databases it connected, its kroute calls
    test        \* test[t]: where test t stands in its body, and its verdict

\* the serving threads, looked at only where handlers are taken step by step
aside == <<flow, held, poisoned, loop, main, test>>

\* what the Kontrollers of the accounts routes leave alone
rest == <<blogs, newsletter, aside>>

vars == <<accounts, storeUp, cookie, registry, last, blogs, newsletter,
          flow, held, poisoned, loop, main, test>>

\* ------------------------------------------------------------- responses
\* server::Response::json(&json!({"message": "Hello World"})).with_status_code(200)
json_hello ==
    [variant |-> "Success", status |-> 200, body |-> "{\"message\":\"Hello World\"}"]

\* ErrorResponse::unauthorized()
unauthorized ==
    [variant |-> "Unauthorized", status |-> 401, body |-> "Unauthorized"]

\* ErrorResponse::internal()
internal ==
    [variant |-> "Internal", status |-> 500, body |-> "Internal"]

\* ErrorResponse::bad_request()
bad_request ==
    [variant |-> "BadRequest", status |-> 400, body |-> "BadRequest"]

\* ErrorResponse::not_found(), kroute's answer when no Kontroller matches
not_found ==
    [variant |-> "NotFound", status |-> 404, body |-> "NotFound"]

\* 201 of the account creation Kontroller
created ==
    [variant |-> "Created", status |-> 201, body |-> "Created"]

\* 200 of the login Kontroller
logged_in ==
    [variant |-> "LoggedIn", status |-> 200, body |-> "LoggedIn"]

NoResponse ==
    [variant |-> "None", status |-> 0, body |-> ""]

ErrorResponse == {unauthorized, internal, bad_request, not_found}

\* ------------------------------------------------------------ route table
\* mutant: the account creation Kontroller registered with Method::Get
Kontrollers_AccountsGet ==
    << [kontroller |-> "CreateAccountKontroller", address |-> "/accounts",
        method |-> "Get", database |-> "accounts"],
       [kontroller |-> "LoginKontroller", address |-> "/login",
        method |-> "Post", database |-> "accounts"],
       [kontroller |-> "CreateBlogPostKontroller", address |-> "/blog",
        method |-> "Post", database |-> "blogs",
        accounts_database |-> "accounts"],
       [kontroller |-> "PrivateKontroller", address |-> "/private",
        method |-> "Get", database |-> "accounts"],
       [kontroller |-> "SubscribeNewsletterKontroller", address |-> "/newsletter",
        method |-> "Post", database |-> "newsletter"] >>

\* mutant: the login Kontroller registered with Method::Get
Kontrollers_LoginGet ==
    << [kontroller |-> "CreateAccountKontroller", address |-> "/accounts",
        method |-> "Post", database |-> "accounts"],
       [kontroller |-> "LoginKontroller", address |-> "/login",
        method |-> "Get", database |-> "accounts"],
       [kontroller |-> "CreateBlogPostKontroller", address |-> "/blog",
        method |-> "Post", database |-> "blogs",
        accounts_database |-> "accounts"],
       [kontroller |-> "PrivateKontroller", address |-> "/private",
        method |-> "Get", database |-> "accounts"],
       [kontroller |-> "SubscribeNewsletterKontroller", address |-> "/newsletter",
        method |-> "Post", database |-> "newsletter"] >>

\* mutant: PrivateKontroller registered with Method::Post
Kontrollers_PrivatePost ==
    << [kontroller |-> "CreateAccountKontroller", address |-> "/accounts",
        method |-> "Post", database |-> "accounts"],
       [kontroller |-> "LoginKontroller", address |-> "/login",
        method |-> "Post", database |-> "accounts"],
       [kontroller |-> "CreateBlogPostKontroller", address |-> "/blog",
        method |-> "Post", database |-> "blogs",
        accounts_database |-> "accounts"],
       [kontroller |-> "PrivateKontroller", address |-> "/private",
        method |-> "Post", database |-> "accounts"],
       [kontroller |-> "SubscribeNewsletterKontroller", address |-> "/newsletter",
        method |-> "Post", database |-> "newsletter"] >>

\* mutant: the newsletter Kontroller registered at the blog address
Kontrollers_NewsletterAtBlog ==
    << [kontroller |-> "CreateAccountKontroller", address |-> "/accounts",
        method |-> "Post", database |-> "accounts"],
       [kontroller |-> "LoginKontroller", address |-> "/login",
        method |-> "Post", database |-> "accounts"],
       [kontroller |-> "CreateBlogPostKontroller", address |-> "/blog",
        method |-> "Post", database |-> "blogs",
        accounts_database |-> "accounts"],
       [kontroller |-> "PrivateKontroller", address |-> "/private",
        method |-> "Get", database |-> "accounts"],
       [kontroller |-> "SubscribeNewsletterKontroller", address |-> "/blog",
        method |-> "Post", database |-> "newsletter"] >>

\* mutant: the blog Kontroller given the blogs database as its accounts database
Kontrollers_BlogWrongAccounts ==
    << [kontroller |-> "CreateAccountKontroller", address |-> "/accounts",
        method |-> "Post", database |-> "accounts"],
       [kontroller |-> "LoginKontroller", address |-> "/login",
        method |-> "Post", database |-> "accounts"],
       [kontroller |-> "CreateBlogPostKontroller", address |-> "/blog",
        method |-> "Post", database |-> "blogs",
        accounts_database |-> "blogs"],
       [kontroller |-> "PrivateKontroller", address |-> "/private",
        method |-> "Get", database |-> "accounts"],
       [kontroller |-> "SubscribeNewsletterKontroller", address |-> "/newsletter",
        method |-> "Post", database |-> "newsletter"] >>

\* mutant: PrivateKontroller given a Mutex of its own around the accounts database
Kontrollers_PrivateOwnMutex ==
    << [kontroller |-> "CreateAccountKontroller", address |-> "/accounts",
        method |-> "Post", database |-> "accounts"],
       [kontroller |-> "LoginKontroller", address |-> "/login",
        method |-> "Post", database |-> "accounts"],
       [kontroller |-> "CreateBlogPostKontroller", address |-> "/blog",
        method |-> "Post", database |-> "blogs",
        accounts_database |-> "accounts"],
       [kontroller |-> "PrivateKontroller", address |-> "/private",
        method |-> "Get", database |-> "accounts_private"],
       [kontroller |-> "SubscribeNewsletterKontroller", address |-> "/newsletter",
        method |-> "Post", database |-> "newsletter"] >>

\* mutant: SubscribeNewsletterKontroller registered under GET
Kontrollers_NewsletterGet ==
    << [kontroller |-> "CreateAccountKontroller", address |-> "/accounts",
        method |-> "Post", database |-> "accounts"],
       [kontroller |-> "LoginKontroller", address |-> "/login",
        method |-> "Post", database |-> "accounts"],
       [kontroller |-> "CreateBlogPostKontroller", address |-> "/blog",
        method |-> "Post", database |-> "blogs",
        accounts_database |-> "accounts"],
       [kontroller |-> "PrivateKontroller", address |-> "/private",
        method |-> "Get", database |-> "accounts"],
       [kontroller |-> "SubscribeNewsletterKontroller", address |-> "/newsletter",
        method |-> "Get", database |-> "newsletter"] >>

\* the vec! passed to kroute in main
Kontrollers ==
    << [kontroller |-> "CreateAccountKontroller", address |-> "/accounts",
        method |-> "Post", database |-> "accounts"],
       [kontroller |-> "LoginKontroller", address |-> "/login",
        method |-> "Post", database |-> "accounts"],
       [kontroller |-> "CreateBlogPostKontroller", address |-> "/blog",
        method |-> "Post", database |-> "blogs",
        accounts_database |-> "accounts"],
       [kontroller |-> "PrivateKontroller", address |-> "/private",
        method |-> "Get", database |-> "accounts"],
       [kontroller |-> "SubscribeNewsletterKontroller", address |-> "/newsletter",
        method |-> "Post", database |-> "newsletter"] >>

\* kroute's dispatch: the first Kontroller whose method() and address() equal
\* the request's, or "none"
kroute(reg, method, path) ==
    LET hits == {i \in 1..Len(reg) : reg[i].method = method /\ reg[i].address = path}
    IN  IF hits = {} THEN "none"
        ELSE reg[CHOOSE i \in hits : \A j \in hits : i <= j].kontroller

\* ------------------------------------------------------ the identity store
\* the accounts database as a handler sees it through Arc<Mutex<AccountsDB>>
Database == [rows |-> accounts, up |-> storeUp]

\* kong_kontrollers::login::is_admin(k, database) -> Result<bool, _>
is_admin(k, database) ==
    IF database.up /\ k \in DOMAIN database.rows
    THEN [ok |-> TRUE, admin |-> database.rows[k].admin]
    ELSE [ok |-> FALSE, admin |-> FALSE]

\* ------------------------------------------------- PrivateKontroller::kontrol
\* mutant: the branch without a passport reports a fault
kontrol_NoSessionInternal(kong, database) ==
    IF kong.kpassport # None
    THEN LET res == is_admin(kong.kpassport, database)
         IN  IF res.ok
             THEN IF res.admin THEN json_hello ELSE unauthorized
             ELSE internal
    ELSE internal

\* mutant: the admin flag is not looked at
kontrol_IgnoresAdmin(kong, database) ==
    IF kong.kpassport # None
    THEN LET res == is_admin(kong.kpassport, database)
         IN  IF res.ok THEN json_hello ELSE internal
    ELSE unauthorized

\* mutant: a failed lookup serves the resource
kontrol_FailOpen(kong, database) ==
    IF kong.kpassport # None
    THEN LET res == is_admin(kong.kpassport, database)
         IN  IF res.ok
             THEN IF res.admin THEN json_hello ELSE unauthorized
             ELSE json_hello
    ELSE unauthorized

\* mutant: a failed lookup is reported as Unauthorized
kontrol_ErrUnauthorized(kong, database) ==
    IF kong.kpassport # None
    THEN LET res == is_admin(kong.kpassport, database)
         IN  IF res.ok /\ res.admin THEN json_hello ELSE unauthorized
    ELSE unauthorized

\* mutant: a failed lookup ends the handler without a response
kontrol_NoResponseOnErr(kong, database) ==
    IF kong.kpassport # None
    THEN LET res == is_admin(kong.kpassport, database)
         IN  IF res.ok
             THEN IF res.admin THEN json_hello ELSE unauthorized
             ELSE NoResponse
    ELSE unauthorized

\* mutant: an authenticated non-admin is told apart from an anonymous caller
kontrol_Forbidden(kong, database) ==
    IF kong.kpassport # None
    THEN LET res == is_admin(kong.kpassport, database)
         IN  IF res.ok
             THEN IF res.admin THEN json_hello
                  ELSE [variant |-> "Forbidden", status |-> 403, body |-> "Forbidden"]
             ELSE internal
    ELSE unauthorized

\* mutant: the admin test inverted
kontrol_AdminInverted(kong, database) ==
    IF kong.kpassport # None
    THEN LET res == is_admin(kong.kpassport, database)
         IN  IF res.ok
             THEN IF res.admin THEN unauthorized ELSE json_hello
             ELSE internal
    ELSE unauthorized

kontrol(kong, database) ==
    IF kong.kpassport # None
    THEN LET res == is_admin(kong.kpassport, database)
         IN  IF res.ok
             THEN IF res.admin THEN json_hello ELSE unauthorized
             ELSE internal
    ELSE unauthorized

\* ------------------------------------------------------------- bookkeeping
\* how the identity lookup of one gate evaluation ended
Lookup(kpassport, database) ==
    IF kpassport = None THEN "NotCalled"
    ELSE LET res == is_admin(kpassport, database)
         IN  IF ~res.ok THEN "Err" ELSE IF res.admin THEN "OkTrue" ELSE "OkFalse"

\* no gate evaluation to compare with
NoGate == [kpassport |-> None, lookup |-> "None", response |-> NoResponse]

\* the gate evaluation a step leaves behind for the next one to compare with
GateOf(l) ==
    IF l.kontroller = "PrivateKontroller"
    THEN [kpassport |-> l.kpassport, lookup |-> l.lookup, response |-> l.response]
    ELSE IF l.kontroller = "environment" THEN l.prev ELSE NoGate

Idle ==
    [kontroller |-> "idle", method |-> "", path |-> "",
     username |-> None, password |-> "", kpassport |-> None, lookup |-> "None", up |-> TRUE,
     existed |-> FALSE, changed |-> FALSE, prev |-> NoGate, response |-> NoResponse,
     queries |-> 0, panicked |-> FALSE]

\* a step of the environment: it answers no request, and remembers the gate
\* evaluation before it and that the store or the session changed since
Environment ==
    [Idle EXCEPT !.kontroller = "environment", !.changed = TRUE,
                 !.prev = GateOf(last)]

\* ------------------------------------------------------------ serving threads
\* a serving thread with no request
NoFlow ==
    [kontroller |-> "none", kpassport |-> None, pc |-> "idle", plan |-> <<>>,
     queries |-> 0, lookup |-> "None", response |-> NoResponse]

\* the database handles (Arc<Mutex<..>>) the registered Kontrollers hold
HandlesOf(k) ==
    {k.database} \cup
    (IF "accounts_database" \in DOMAIN k THEN {k.accounts_database} ELSE {})

Handles(reg) == UNION {HandlesOf(reg[i]) : i \in 1..Len(reg)}

\* the database file behind a handle
FileOf(h) ==
    IF h = "blogs" THEN "TEST_BLOGS_DATABASE.sqlite"
    ELSE IF h = "newsletter" THEN "TEST_NEWSLETTER_DATABASE.sqlite"
    ELSE "TEST_ACCOUNTS_DATABASE.sqlite"

Files == {"TEST_ACCOUNTS_DATABASE.sqlite", "TEST_BLOGS_DATABASE.sqlite",
          "TEST_NEWSLETTER_DATABASE.sqlite"}

\* --------------------------------------------------------------- main, Init
\* no test is run against the server
NoTests == [t \in {} |-> 0]

\* mutant: kroute called before the newsletter database is connected
MainSteps_KrouteEarly == <<"accounts", "blogs", "kroute", "newsletter">>

\* the statements of main in order: the three databases are constructed and
\* connected one after the other, then kroute is called
MainSteps == <<"accounts", "blogs", "newsletter", "kroute">>

\* main inside kroute, the three databases connected on the way
Started ==
    [pc |-> "serving", at |-> Len(MainSteps),
     connected |-> <<"accounts", "blogs", "newsletter">>, kroutes |-> 1]

\* the state main leaves when kroute starts serving: the three databases
\* connected, the five Kontrollers registered, no request handled yet
Init ==
    /\ accounts = [u \in {} |-> 0]
    /\ storeUp = TRUE
    /\ cookie = [c \in Clients |-> None]
    /\ registry = Kontrollers
    /\ last = Idle
    /\ blogs = 0
    /\ newsletter = {}
    /\ flow = [f \in Flows |-> NoFlow]
    /\ held = [h \in Handles(Kontrollers) |-> {}]
    /\ poisoned = {}
    /\ loop = "serving"
    /\ main = Started
    /\ test = NoTests

\* ------------------------------------------------------------------ requests
\* the account row CreateAccountKontroller inserts: the test registers an
\* account, logs in with it and is served GET /private with 200, so a
\* registered account is one is_admin answers Ok(true) for
NewAccount(password) == [password |-> password, admin |-> TRUE]

\* POST /accounts: CreateAccountKontroller
CreateAccount(c, u, pw) ==
    \E m \in Methods, p \in Paths :
        /\ kroute(registry, m, p) = "CreateAccountKontroller"
        /\ LET ok == storeUp /\ u \notin DOMAIN accounts
               resp == IF ~storeUp THEN internal
                       ELSE IF u \in DOMAIN accounts THEN bad_request ELSE created
           IN  /\ accounts' = IF ok THEN accounts @@ (u :> NewAccount(pw)) ELSE accounts
               /\ last' = [Idle EXCEPT !.kontroller = "CreateAccountKontroller",
                                       !.method = m, !.path = p,
                                       !.username = u,
                                       !.up = storeUp,
                                       !.existed = (u \in DOMAIN accounts),
                                       !.response = resp]
        /\ UNCHANGED <<storeUp, cookie, registry, rest>>

\* POST /login: LoginKontroller
Login(c, u, pw) ==
    \E m \in Methods, p \in Paths :
        /\ kroute(registry, m, p) = "LoginKontroller"
        /\ LET ok == storeUp /\ u \in DOMAIN accounts /\ accounts[u].password = pw
               resp == IF ~storeUp THEN internal
                       ELSE IF ok THEN logged_in ELSE bad_request
           IN  /\ cookie' = IF ok THEN [cookie EXCEPT ![c] = u] ELSE cookie
               /\ last' = [Idle EXCEPT !.kontroller = "LoginKontroller",
                                       !.method = m, !.path = p,
                                       !.username = u, !.password = pw,
                                       !.up = storeUp,
                                       !.response = resp]
        /\ UNCHANGED <<accounts, storeUp, registry, rest>>

\* what a request to PrivateKontroller leaves in last
PrivateRecord(c, m, p, response) ==
    [Idle EXCEPT !.kontroller = "PrivateKontroller",
                 !.method = m, !.path = p,
                 !.kpassport = cookie[c],
                 !.lookup = Lookup(cookie[c], Database),
                 !.up = storeUp,
                 !.changed = (last.kontroller = "environment"),
                 !.prev = GateOf(last),
                 !.response = response]

\* mutant: the decision taken for a passport is kept and reused
Private_Cached(c) ==
    \E m \in Methods, p \in Paths :
        /\ kroute(registry, m, p) = "PrivateKontroller"
        /\ LET kong == [kpassport |-> cookie[c]]
               before == GateOf(last)
           IN  last' = PrivateRecord(c, m, p,
                          IF kong.kpassport # None
                             /\ before.kpassport = kong.kpassport
                             /\ before.response = json_hello
                          THEN json_hello
                          ELSE kontrol(kong, Database))
        /\ UNCHANGED <<accounts, storeUp, cookie, registry, rest>>

\* mutant: a served request uses the session up
Private_Consuming(c) ==
    \E m \in Methods, p \in Paths :
        /\ kroute(registry, m, p) = "PrivateKontroller"
        /\ LET kong == [kpassport |-> cookie[c]]
               response == kontrol(kong, Database)
           IN  /\ last' = PrivateRecord(c, m, p, response)
               /\ accounts' = IF response = json_hello
                              THEN [accounts EXCEPT ![kong.kpassport].admin = FALSE]
                              ELSE accounts
        /\ UNCHANGED <<storeUp, cookie, registry, rest>>

\* GET /private: kroute builds the Kong of the request, with the passport of
\* the client's cookie, and calls PrivateKontroller::kontrol
Private(c) ==
    \E m \in Methods, p \in Paths :
        /\ kroute(registry, m, p) = "PrivateKontroller"
        /\ LET kong == [kpassport |-> cookie[c]]
           IN  last' = PrivateRecord(c, m, p, kontrol(kong, Database))
        /\ UNCHANGED <<accounts, storeUp, cookie, registry, rest>>

\* the Kontroller of that name among the registered ones
Entry(reg, name) ==
    reg[CHOOSE i \in 1..Len(reg) : reg[i].kontroller = name]

\* the database behind a handle: only the accounts database holds accounts
DatabaseNamed(name) ==
    IF FileOf(name) = "TEST_ACCOUNTS_DATABASE.sqlite" THEN Database
    ELSE [rows |-> [u \in {} |-> 0], up |-> TRUE]

\* CreateBlogPostKontroller::kontrol: the gate of the protected routes, then
\* the post is stored and 201 returned
blog_kontrol(kong, database) ==
    IF kong.kpassport # None
    THEN LET res == is_admin(kong.kpassport, database)
         IN  IF res.ok
             THEN IF res.admin THEN created ELSE unauthorized
             ELSE internal
    ELSE unauthorized

\* POST /blog with a valid multipart form: CreateBlogPostKontroller
Blog(c) ==
    \E m \in Methods, p \in Paths :
        /\ kroute(registry, m, p) = "CreateBlogPostKontroller"
        /\ LET self == Entry(registry, "CreateBlogPostKontroller")
               kong == [kpassport |-> cookie[c]]
               database == DatabaseNamed(self.accounts_database)
               resp == blog_kontrol(kong, database)
           IN  /\ blogs' = IF resp = created /\ blogs < MaxPosts THEN blogs + 1 ELSE blogs
               /\ last' = [Idle EXCEPT !.kontroller = "CreateBlogPostKontroller",
                                       !.method = m, !.path = p,
                                       !.kpassport = kong.kpassport,
                                       !.lookup = Lookup(kong.kpassport, database),
                                       !.up = storeUp,
                                       !.response = resp]
        /\ UNCHANGED <<accounts, storeUp, cookie, registry, newsletter, aside>>

\* POST /newsletter with an email: SubscribeNewsletterKontroller
Newsletter(c, e) ==
    \E m \in Methods, p \in Paths :
        /\ kroute(registry, m, p) = "SubscribeNewsletterKontroller"
        /\ newsletter' = newsletter \cup {e}
        /\ last' = [Idle EXCEPT !.kontroller = "SubscribeNewsletterKontroller",
                                !.method = m, !.path = p,
                                !.kpassport = cookie[c],
                                !.up = storeUp,
                                !.response = created]
        /\ UNCHANGED <<accounts, storeUp, cookie, registry, blogs, aside>>

\* a request no registered Kontroller matches
NotFound(c) ==
    \E m \in Methods, p \in Paths :
        /\ kroute(registry, m, p) = "none"
        /\ last' = [Idle EXCEPT !.kontroller = "none", !.method = m, !.path = p,
                                !.up = storeUp, !.response = not_found]
        /\ UNCHANGED <<accounts, storeUp, cookie, registry, rest>>

\* --------------------------------------------------------------- environment
\* a client built anew has an empty cookie store
NewClient(c) ==
    /\ cookie[c] # None
    /\ cookie' = [cookie EXCEPT ![c] = None]
    /\ last' = Environment
    /\ UNCHANGED <<accounts, storeUp, registry, rest>>

\* the admin flag of an account row is changed in the accounts database
SetAdmin(u, flag) ==
    /\ u \in DOMAIN accounts
    /\ accounts[u].admin # flag
    /\ accounts' = [accounts EXCEPT ![u].admin = flag]
    /\ last' = Environment
    /\ UNCHANGED <<storeUp, cookie, registry, rest>>

\* an account row is removed from the accounts database
RemoveAccount(u) ==
    /\ u \in DOMAIN accounts
    /\ accounts' = [x \in DOMAIN accounts \ {u} |-> accounts[x]]
    /\ last' = Environment
    /\ UNCHANGED <<storeUp, cookie, registry, rest>>

\* the accounts database becomes unreachable, or reachable again
StoreFault ==
    /\ storeUp' = ~storeUp
    /\ last' = Environment
    /\ UNCHANGED <<accounts, cookie, registry, rest>>

\* ------------------------------------------- handlers taken step by step
\* the account and the email the step-by-step requests are about
LockUser == 1
LockStores ==
    { [u \in {} |-> 0],
      [u \in {LockUser} |-> [password |-> "1234567890", admin |-> TRUE]],
      [u \in {LockUser} |-> [password |-> "1234567890", admin |-> FALSE]] }

InitLock ==
    /\ accounts \in LockStores
    /\ storeUp = TRUE
    /\ cookie = [c \in Clients |-> None]
    /\ registry = Kontrollers
    /\ last = Idle
    /\ blogs = 0
    /\ newsletter = {}
    /\ flow = [f \in Flows |-> NoFlow]
    /\ held = [h \in Handles(Kontrollers) |-> {}]
    /\ poisoned = {}
    /\ loop = "serving"
    /\ main = Started
    /\ test = NoTests

\* mutant: is_admin is called whether or not the Kong carries a passport
kontrol_calls_Always(self, kong) == <<self.database>>

\* the is_admin calls of PrivateKontroller::kontrol, each on self.database:
\* one when the Kong carries a passport, none otherwise
kontrol_calls(self, kong) ==
    IF kong.kpassport # None THEN <<self.database>> ELSE <<>>

\* the store accesses a handler makes, in order, each under the Mutex of its
\* handle
Plan(self, kong) ==
    IF self.kontroller = "PrivateKontroller" THEN kontrol_calls(self, kong)
    ELSE IF self.kontroller = "CreateBlogPostKontroller"
    THEN IF kong.kpassport # None
         THEN <<self.accounts_database, self.database>> ELSE <<>>
    ELSE <<self.database>>

\* the Kontrollers whose kontrol reads kong.kpassport
Gated == {"PrivateKontroller", "CreateBlogPostKontroller"}

\* kroute hands request (registry[i].method, registry[i].address), with
\* passport k, to a serving thread, which calls the Kontroller's kontrol; the
\* passport is kept only for a Kontroller that reads it
Start(f, i, k) ==
    /\ loop # "stopped"
    /\ flow[f].pc = "idle"
    /\ i \in 1..Len(registry)
    /\ kroute(registry, registry[i].method, registry[i].address) = registry[i].kontroller
    /\ flow' = [flow EXCEPT ![f] =
                  [NoFlow EXCEPT !.kontroller = registry[i].kontroller,
                                 !.kpassport = IF registry[i].kontroller \in Gated
                                               THEN k ELSE None,
                                 !.pc = "run",
                                 !.plan = Plan(registry[i], [kpassport |-> k])]]
    /\ UNCHANGED <<accounts, storeUp, cookie, registry, last, blogs, newsletter,
                   held, poisoned, loop, main, test>>

\* database.lock().unwrap(): the thread enters the Mutex when no other is in
Lock(f) ==
    /\ flow[f].pc = "run"
    /\ flow[f].plan # <<>>
    /\ Head(flow[f].plan) \notin poisoned
    /\ held[Head(flow[f].plan)] = {}
    /\ held' = [held EXCEPT ![Head(flow[f].plan)] = @ \cup {f}]
    /\ flow' = [flow EXCEPT ![f].pc = "locked"]
    /\ UNCHANGED <<accounts, storeUp, cookie, registry, last, blogs, newsletter,
                   poisoned, loop, main, test>>

\* the one query or write made inside the Mutex
Access(f) ==
    /\ flow[f].pc = "locked"
    /\ LET me == flow[f]
           h == Head(me.plan)
           kong == [kpassport |-> me.kpassport]
           database == DatabaseNamed(h)
           isAccounts == FileOf(h) = "TEST_ACCOUNTS_DATABASE.sqlite"
       IN  /\ flow' = [flow EXCEPT ![f] =
                [me EXCEPT !.pc = "accessed",
                    !.queries = IF me.kontroller \in Gated
                                   /\ me.lookup = "None"
                                THEN me.queries + 1 ELSE me.queries,
                    !.lookup = IF me.kontroller \in Gated
                                  /\ me.lookup = "None"
                               THEN Lookup(me.kpassport, database) ELSE me.lookup,
                    !.response =
                        IF me.kontroller = "PrivateKontroller" THEN kontrol(kong, database)
                        ELSE IF me.kontroller = "CreateBlogPostKontroller"
                        THEN (IF me.lookup = "None" THEN blog_kontrol(kong, database)
                              ELSE me.response)
                        ELSE IF me.kontroller = "CreateAccountKontroller"
                        THEN (IF LockUser \in DOMAIN accounts THEN bad_request ELSE created)
                        ELSE IF me.kontroller = "LoginKontroller"
                        THEN (IF LockUser \in DOMAIN accounts THEN logged_in ELSE bad_request)
                        ELSE created]]
           /\ accounts' = IF me.kontroller = "CreateAccountKontroller" /\ isAccounts
                             /\ LockUser \notin DOMAIN accounts
                          THEN accounts @@ (LockUser :> NewAccount("1234567890"))
                          ELSE accounts
           /\ blogs' = IF me.kontroller = "CreateBlogPostKontroller" /\ me.lookup # "None"
                          /\ blogs < MaxPosts
                       THEN blogs + 1 ELSE blogs
           /\ newsletter' = IF me.kontroller = "SubscribeNewsletterKontroller"
                            THEN newsletter \cup Emails ELSE newsletter
    /\ UNCHANGED <<storeUp, cookie, registry, last, held, poisoned, loop, main,
                   test>>

\* the MutexGuard is dropped at the end of the statement that took it
Unlock(f) ==
    /\ flow[f].pc = "accessed"
    /\ held' = [held EXCEPT ![Head(flow[f].plan)] = @ \ {f}]
    /\ flow' = [flow EXCEPT ![f].pc = "run",
                            ![f].plan = IF flow[f].kontroller = "CreateBlogPostKontroller"
                                           /\ flow[f].response # created
                                        THEN <<>> ELSE Tail(flow[f].plan)]
    /\ UNCHANGED <<accounts, storeUp, cookie, registry, last, blogs, newsletter,
                   poisoned, loop, main, test>>

\* what an answered request of a serving thread leaves in last
FlowRecord(me, response) ==
    [Idle EXCEPT !.kontroller = me.kontroller,
                 !.queries = me.queries,
                 !.response = response]

\* kontrol returns its response and the thread sends it
Return(f) ==
    /\ flow[f].pc = "run"
    /\ flow[f].plan = <<>>
    /\ LET me == flow[f]
           kong == [kpassport |-> me.kpassport]
       IN  last' = FlowRecord(me,
                      IF me.response # NoResponse THEN me.response
                      ELSE IF me.kontroller = "PrivateKontroller"
                      THEN kontrol(kong, Database)
                      ELSE blog_kontrol(kong, Database))
    /\ flow' = [flow EXCEPT ![f] = NoFlow]
    /\ UNCHANGED <<accounts, storeUp, cookie, registry, blogs, newsletter,
                   held, poisoned, loop, main, test>>

NextLock ==
    \/ \E f \in Flows, i \in 1..Len(Kontrollers), k \in {None, LockUser} : Start(f, i, k)
    \/ \E f \in Flows : Lock(f)
    \/ \E f \in Flows : Access(f)
    \/ \E f \in Flows : Unlock(f)
    \/ \E f \in Flows : Return(f)

SpecLock == InitLock /\ [][NextLock]_vars

\* ------------------------------------------------------------ specifications
Requests ==
    \/ \E c \in Clients, u \in Usernames, pw \in Passwords : CreateAccount(c, u, pw)
    \/ \E c \in Clients, u \in Usernames, pw \in Passwords : Login(c, u, pw)
    \/ \E c \in Clients : Private(c)
    \/ \E c \in Clients : NotFound(c)

Next ==
    \/ Requests
    \/ \E c \in Clients : NewClient(c)
    \/ \E u \in Usernames, flag \in BOOLEAN : SetAdmin(u, flag)
    \/ \E u \in Usernames : RemoveAccount(u)
    \/ StoreFault

Spec == Init /\ [][Next]_vars

\* clients alone: nothing but their requests touches the store or the cookies
NextSession ==
    \/ \E c \in Clients, u \in Usernames, pw \in Passwords : CreateAccount(c, u, pw)
    \/ \E c \in Clients, u \in Usernames, pw \in Passwords : Login(c, u, pw)
    \/ \E c \in Clients : Private(c)
    \/ \E c \in Clients : NotFound(c)
    \/ \E c \in Clients : Blog(c)
    \/ \E c \in Clients, e \in Emails : Newsletter(c, e)

SpecSession == Init /\ [][NextSession]_vars

\* ------------------------------------------------------------------ startup
\* the process at the first statement of main: nothing connected or registered
InitMain ==
    /\ accounts = [u \in {} |-> 0]
    /\ storeUp = TRUE
    /\ cookie = [c \in Clients |-> None]
    /\ registry = <<>>
    /\ last = Idle
    /\ blogs = 0
    /\ newsletter = {}
    /\ flow = [f \in Flows |-> NoFlow]
    /\ held = [h \in Handles(Kontrollers) |-> {}]
    /\ poisoned = {}
    /\ loop = "serving"
    /\ main = [pc |-> "starting", at |-> 1, connected |-> <<>>, kroutes |-> 0]
    /\ test = NoTests

\* main stands at a statement that constructs and connects a database
AtConnect ==
    /\ main.pc = "starting"
    /\ main.at \in DOMAIN MainSteps
    /\ MainSteps[main.at] # "kroute"

\* Arc::new(Mutex::new(DB::new(..))) and .lock().unwrap().connect() is Ok:
\* main goes on to its next statement
ConnectOk ==
    /\ AtConnect
    /\ main' = [main EXCEPT !.at = @ + 1,
                            !.connected = Append(@, MainSteps[main.at])]
    /\ UNCHANGED <<accounts, storeUp, cookie, registry, last, blogs, newsletter,
                   flow, held, poisoned, loop, test>>

\* connect() is Err: the unwrap panics in main and the process ends
ConnectFails ==
    /\ AtConnect
    /\ main' = [main EXCEPT !.pc = "aborted"]
    /\ UNCHANGED <<accounts, storeUp, cookie, registry, last, blogs, newsletter,
                   flow, held, poisoned, loop, test>>

\* kroute(vec![..]): the five Kontrollers are registered and serving begins;
\* kroute does not return
Kroute ==
    /\ main.pc = "starting"
    /\ main.at \in DOMAIN MainSteps
    /\ MainSteps[main.at] = "kroute"
    /\ registry' = Kontrollers
    /\ main' = [main EXCEPT !.pc = "serving", !.kroutes = @ + 1]
    /\ UNCHANGED <<accounts, storeUp, cookie, last, blogs, newsletter,
                   flow, held, poisoned, loop, test>>

\* the process from its start: main, then the requests of clients
NextMain ==
    \/ ConnectOk
    \/ ConnectFails
    \/ Kroute
    \/ main.pc = "serving" /\ NextSession

SpecMain == InitMain /\ [][NextMain]_vars

\* ------------------------------------------------------------------ failures
\* mutant: a handler's panic unwinds through the dispatcher and ends the loop
Caught_Crash(name, m, p) ==
    [last |-> [Idle EXCEPT !.kontroller = name, !.method = m, !.path = p,
                           !.panicked = TRUE],
     loop |-> "stopped"]

\* the dispatch boundary: the panic of a handler is caught, the client gets
\* the Internal error response and the loop goes on serving
Caught(name, m, p) ==
    [last |-> [Idle EXCEPT !.kontroller = name, !.method = m, !.path = p,
                           !.panicked = TRUE, !.response = internal],
     loop |-> "recovered"]

\* the Mutexes the handler of Kontroller name locks for client c
LocksOf(name, c) ==
    LET plan == Plan(Entry(registry, name), [kpassport |-> cookie[c]])
    IN  {plan[i] : i \in 1..Len(plan)}

\* a handler gets through only if none of the Mutexes it locks is poisoned:
\* lock().unwrap() panics on a poisoned Mutex
Sound(name, c) == loop # "stopped" /\ LocksOf(name, c) \cap poisoned = {}

\* the handler of Kontroller name panics while serving client c, at where:
\* inside the lock of one of its Mutexes, which is poisoned from then on, or
\* "outside" any lock; a handler that meets a poisoned Mutex panics outside
HandlerPanics(c, name, where) ==
    \E m \in Methods, p \in Paths :
        /\ loop # "stopped"
        /\ kroute(registry, m, p) = name
        /\ name # "none"
        /\ where \in (LocksOf(name, c) \ poisoned) \cup {"outside"}
        /\ where # "outside" => LocksOf(name, c) \cap poisoned = {}
        /\ poisoned' = IF where = "outside" THEN poisoned ELSE poisoned \cup {where}
        /\ last' = Caught(name, m, p).last
        /\ loop' = Caught(name, m, p).loop
        /\ UNCHANGED <<accounts, storeUp, cookie, registry, blogs, newsletter, flow, held,
                       main, test>>

\* the client whose requests meet the panics
Prober == CHOOSE c \in Clients : TRUE

\* the requests of one client about one account, each handler either getting
\* through or panicking
NextPanic ==
    \/ \E pw \in Passwords :
            Sound("CreateAccountKontroller", Prober) /\ CreateAccount(Prober, LockUser, pw)
    \/ \E pw \in Passwords :
            Sound("LoginKontroller", Prober) /\ Login(Prober, LockUser, pw)
    \/ Sound("PrivateKontroller", Prober) /\ Private(Prober)
    \/ loop # "stopped" /\ NotFound(Prober)
    \/ Sound("CreateBlogPostKontroller", Prober) /\ Blog(Prober)
    \/ \E e \in Emails :
            Sound("SubscribeNewsletterKontroller", Prober) /\ Newsletter(Prober, e)
    \/ \E i \in 1..Len(Kontrollers), where \in Handles(Kontrollers) \cup {"outside"} :
            HandlerPanics(Prober, Kontrollers[i].kontroller, where)

SpecPanic == Init /\ [][NextPanic]_vars

\* -------------------------------------------------------------------- tests
Tests == {"test_register_account_login", "test_create_blog_post",
          "test_subscribe_newsletter"}

\* a request of a test and the status its assert_eq! expects; expect None
\* where the test does not look at the status
Req(method, path, password, expect) ==
    [op |-> "request", method |-> method, path |-> path, password |-> password,
     expect |-> expect]

RemoveTestDbs ==
    [op |-> "remove_test_dbs", method |-> "", path |-> "", password |-> "",
     expect |-> None]

\* the bodies of the three tests; the account is always "admin"
Script(t) ==
    IF t = "test_register_account_login"
    THEN << RemoveTestDbs,
            Req("Get", "/private", "", unauthorized.status),
            Req("Post", "/accounts", "1234567890", created.status),
            Req("Post", "/accounts", "1234567890", bad_request.status),
            Req("Post", "/login", "wrong_password", bad_request.status),
            Req("Post", "/login", "1234567890", logged_in.status),
            Req("Get", "/private", "", json_hello.status) >>
    ELSE IF t = "test_create_blog_post"
    THEN << RemoveTestDbs,
            Req("Post", "/blog", "", unauthorized.status),
            Req("Post", "/accounts", "1234567890", None),
            Req("Post", "/login", "1234567890", None),
            Req("Post", "/blog", "", created.status) >>
    ELSE << RemoveTestDbs,
            Req("Post", "/newsletter", "", created.status) >>

\* the server started afresh and the three tests about to run, each with a
\* client of its own
InitTests ==
    /\ accounts = [u \in {} |-> 0]
    /\ storeUp = TRUE
    /\ cookie = [t \in Tests |-> None]
    /\ registry = Kontrollers
    /\ last = Idle
    /\ blogs = 0
    /\ newsletter = {}
    /\ flow = [f \in Flows |-> NoFlow]
    /\ held = [h \in Handles(Kontrollers) |-> {}]
    /\ poisoned = {}
    /\ loop = "serving"
    /\ main = Started
    /\ test = [t \in Tests |-> [pc |-> 1, phase |-> "ready", verdict |-> "running"]]

\* test t stands at a statement of its body
Running(t) == test[t].verdict = "running" /\ test[t].pc \in DOMAIN Script(t)

\* test t moves past its statement, or has run through its body
Passed(t) ==
    [pc |-> test[t].pc + 1, phase |-> "ready",
     verdict |-> IF test[t].pc = Len(Script(t)) THEN "passed" ELSE "running"]

\* remove_test_dbs: the files of the accounts and the blogs database are
\* removed under the running server; what the server's open databases make
\* of it is one of outcome: "kept" rows, "emptied" databases, or "broken"
\* queries from then on
RemoveDbs(t, outcome) ==
    /\ Running(t)
    /\ Script(t)[test[t].pc].op = "remove_test_dbs"
    /\ \A o \in Tests : test[o].phase = "ready"
    /\ accounts' = IF outcome = "emptied" THEN [u \in {} |-> 0] ELSE accounts
    /\ blogs' = IF outcome = "emptied" THEN 0 ELSE blogs
    /\ storeUp' = IF outcome = "broken" THEN FALSE ELSE storeUp
    /\ test' = [test EXCEPT ![t] = Passed(t)]
    /\ last' = Idle
    /\ UNCHANGED <<cookie, registry, newsletter, flow, held, poisoned, loop, main>>

\* client.get(..).send() / client.post(..).send(): the request of test t is
\* on its way; the server takes one request at a time
Send(t) ==
    /\ Running(t)
    /\ Script(t)[test[t].pc].op = "request"
    /\ \A o \in Tests : test[o].phase = "ready"
    /\ test' = [test EXCEPT ![t].phase = "sent"]
    /\ last' = Idle
    /\ UNCHANGED <<accounts, storeUp, cookie, registry, blogs, newsletter,
                   flow, held, poisoned, loop, main>>

\* the server handles the request of test t
Serve(t) ==
    LET rq == Script(t)[test[t].pc]
    IN  /\ test[t].phase = "sent"
        /\ last = Idle
        /\ \/ CreateAccount(t, LockUser, rq.password)
           \/ Login(t, LockUser, rq.password)
           \/ Private(t)
           \/ Blog(t)
           \/ \E e \in Emails : Newsletter(t, e)
           \/ NotFound(t)
        /\ last'.method = rq.method
        /\ last'.path = rq.path

\* assert_eq!(res.status(), ..): the test goes on when the status is the
\* expected one, and fails otherwise
Check(t) ==
    LET rq == Script(t)[test[t].pc]
    IN  /\ test[t].phase = "sent"
        /\ last # Idle
        /\ test' = [test EXCEPT ![t] =
                        IF rq.expect # None /\ last.response.status # rq.expect
                        THEN [@ EXCEPT !.phase = "ready", !.verdict = "failed"]
                        ELSE Passed(t)]
        /\ UNCHANGED <<accounts, storeUp, cookie, registry, last, blogs, newsletter,
                       flow, held, poisoned, loop, main>>

\* the tests run by the test harness, in any order and interleaving
NextTests ==
    \/ \E t \in Tests, outcome \in {"kept", "emptied", "broken"} : RemoveDbs(t, outcome)
    \/ \E t \in Tests : Send(t)
    \/ \E t \in Tests : Serve(t)
    \/ \E t \in Tests : Check(t)

SpecTests == InitTests /\ [][NextTests]_vars

\* ==================================================================== claims
IsPrivate(l) == l.kontroller = "PrivateKontroller"

\* C1: a request handled by PrivateKontroller::kontrol whose Kong carries no
\* passport is answered Unauthorized (401), whatever the accounts store holds
\* and whatever was requested before.
C1_NoPassportUnauthorized ==
    (IsPrivate(last) /\ last.kpassport = None)
        => (last.response = unauthorized /\ last.response.status = 401)

C1_Witness ==
    /\ IsPrivate(last) /\ last.kpassport = None
    /\ \E u \in DOMAIN accounts : accounts[u].admin
    /\ last.response.status = 401

\* C2: when the passport resolves (is_admin is Ok) to a non-admin identity
\* the response is Unauthorized: not the success response, no other status.
C2_NonAdminUnauthorized ==
    (IsPrivate(last) /\ last.lookup = "OkFalse")
        => /\ last.response = unauthorized
           /\ last.response # json_hello
           /\ last.response.status = 401

C2_Witness ==
    /\ IsPrivate(last) /\ last.lookup = "OkFalse"
    /\ last.kpassport \in DOMAIN accounts
    /\ last.response = unauthorized

\* C3: when the passport resolves to an admin identity the response is
\* 200 with the body {"message":"Hello World"}, and the success response is
\* given in that case only.
C3_AdminServed ==
    IsPrivate(last)
        => /\ last.lookup = "OkTrue"
                => /\ last.response.status = 200
                   /\ last.response.body = "{\"message\":\"Hello World\"}"
           /\ (last.response = json_hello \/ last.response.status = 200)
                => last.lookup = "OkTrue"

C3_Witness ==
    /\ IsPrivate(last) /\ last.lookup = "OkTrue"
    /\ last.response = json_hello

\* C4: when the passport is present and is_admin returns an error (store
\* unreachable, identity not found) the response is Internal: never
\* Unauthorized, never the success response.
C4_LookupFailureInternal ==
    (IsPrivate(last) /\ last.kpassport # None /\ last.lookup = "Err")
        => /\ last.response = internal
           /\ last.response # unauthorized
           /\ last.response # json_hello

C4_Witness ==
    /\ IsPrivate(last) /\ last.kpassport # None /\ last.lookup = "Err"
    /\ last.up /\ last.kpassport \notin DOMAIN accounts
    /\ last.response = internal

\* C5: the decision is recomputed from the accounts store on every request:
\* when the request before, with the same passport, was served and the
\* identity's admin flag has been cleared since, this request is answered
\* Unauthorized; and whenever the lookup ends otherwise than it did for the
\* request before, the response follows the present lookup.
C5_RevocationTakesEffect ==
    (IsPrivate(last) /\ last.kpassport # None
        /\ last.prev.kpassport = last.kpassport /\ last.prev.lookup # last.lookup)
        => /\ last.lookup = "OkFalse" => last.response = unauthorized
           /\ last.lookup = "OkTrue" => last.response = json_hello
           /\ last.lookup = "Err" => last.response = internal

C5_Witness ==
    /\ IsPrivate(last) /\ last.kpassport # None
    /\ last.prev.kpassport = last.kpassport
    /\ last.prev.response = json_hello
    /\ last.lookup = "OkFalse"
    /\ last.response = unauthorized

\* C6: a request to the protected route leaves the accounts store, the
\* passport and the registered Kontrollers as they were, and the same request
\* repeated right after a served one, with nothing changed between, is served
\* again.
C6_GateChangesNothing ==
    [][IsPrivate(last')
        => /\ accounts' = accounts
           /\ storeUp' = storeUp
           /\ cookie' = cookie
           /\ registry' = registry
           /\ (/\ ~last'.changed
               /\ last'.prev.kpassport = last'.kpassport
               /\ last'.prev.response = json_hello)
                => last'.response = json_hello]_vars

C6_Witness ==
    /\ IsPrivate(last) /\ ~last.changed
    /\ last.prev.kpassport = last.kpassport
    /\ last.prev.response = json_hello
    /\ last.response = json_hello

IsSuccess(r) == r.status \in 200..299
IsError(r) == r \in ErrorResponse

C8_PolicyViolationsAlike ==
    (IsPrivate(last) /\ last.prev # NoGate
        /\ {last.prev.lookup, last.lookup} = {"NotCalled", "OkFalse"})
        => /\ last.response = last.prev.response
           /\ last.response.variant = "Unauthorized"
           /\ last.response.status # 404
           /\ last.prev.response.status # 404

C8_Witness ==
    /\ IsPrivate(last)
    /\ last.prev.lookup = "OkFalse" /\ last.lookup = "NotCalled"
    /\ last.response = last.prev.response
    /\ last.response = unauthorized

C10_RegisterThenDuplicate ==
    [][(last'.method = "Post" /\ last'.path = "/accounts" /\ last'.up)
        => /\ last'.username \notin DOMAIN accounts
                => /\ last'.response.status = 201
                   /\ last'.username \in DOMAIN accounts'
           /\ last'.username \in DOMAIN accounts
                => /\ last'.response.status = 400
                   /\ last'.response = bad_request
                   /\ accounts' = accounts]_vars

C10_Witness ==
    /\ last.method = "Post" /\ last.path = "/accounts" /\ last.up
    /\ last.existed
    /\ last.response.status = 400
    /\ last.username \in DOMAIN accounts

\* C11: POST /login is handled by LoginKontroller; with the accounts store
\* reachable, for an account that exists it returns 400 when the password is
\* wrong and 200 with the session cookie set when it is right; a failed login
\* sets no cookie, and a request
\* to the protected route right after it, still without passport, is answered
\* Unauthorized.
C11_LoginWrongThenRight ==
    [][/\ (last' # last /\ last'.method = "Post" /\ last'.path = "/login")
            => last'.kontroller = "LoginKontroller"
       /\ (last'.method = "Post" /\ last'.path = "/login" /\ last'.up
            /\ last'.username \in DOMAIN accounts)
            => /\ accounts[last'.username].password # last'.password
                    => /\ last'.response.status = 400
                       /\ cookie' = cookie
               /\ accounts[last'.username].password = last'.password
                    => /\ last'.response.status = 200
                       /\ \E c \in DOMAIN cookie :
                            cookie' = [cookie EXCEPT ![c] = last'.username]
       /\ (last.path = "/login" /\ last.response.status = 400
            /\ IsPrivate(last') /\ last'.kpassport = None)
            => last'.response = unauthorized]_vars

C11_Witness ==
    /\ last.method = "Post" /\ last.path = "/login"
    /\ last.username \in DOMAIN accounts
    /\ accounts[last.username].password = last.password
    /\ last.response.status = 200
    /\ \E c \in DOMAIN cookie : cookie[c] = last.username

\* the five routes main registers
FiveRoutes ==
    { <<"Post", "/accounts">>, <<"Post", "/login">>, <<"Post", "/blog">>,
      <<"Get", "/private">>, <<"Post", "/newsletter">> }

IsRequest(l) == l.method # ""

\* C12: a request invokes a handler only if its method and its path are those
\* of one of the five registered routes, and then the handler registered for
\* them; any other request gets 404 and no handler runs (no store and no
\* cookie changes).
C12_ExactMatchDispatch ==
    [][IsRequest(last')
        => LET route == <<last'.method, last'.path>>
           IN  /\ last'.kontroller # "none"
                    => /\ route \in FiveRoutes
                       /\ \E i \in 1..Len(registry) :
                            /\ registry[i].method = last'.method
                            /\ registry[i].address = last'.path
                            /\ registry[i].kontroller = last'.kontroller
               /\ route \in FiveRoutes => last'.kontroller # "none"
               /\ route \notin FiveRoutes
                    => /\ last'.kontroller = "none"
                       /\ last'.response = not_found
                       /\ last'.response.status = 404
                       /\ UNCHANGED <<accounts, cookie, blogs, newsletter>>]_vars

C12_Witness ==
    /\ last.method = "Post" /\ last.path = "/private"
    /\ last.kontroller = "none"
    /\ last.response.status = 404

\* C13: no two registered Kontrollers have the same (method, address), so a
\* request matches at most one of them.
C13_RoutesDistinct ==
    /\ \A i, j \in 1..Len(registry) :
            i # j => <<registry[i].method, registry[i].address>>
                        # <<registry[j].method, registry[j].address>>
    /\ \A m \in Methods, p \in Paths :
            Cardinality({i \in 1..Len(registry) :
                            registry[i].method = m /\ registry[i].address = p}) <= 1

C13_Witness ==
    /\ Len(registry) = 5
    /\ IsPrivate(last)
    /\ Cardinality({i \in 1..Len(registry) :
            registry[i].method = last.method /\ registry[i].address = last.path}) = 1

Inside(file) ==
    {f \in Flows : \E h \in DOMAIN held : FileOf(h) = file /\ f \in held[h]}

\* the flows that are querying or writing the database file
Accessing(file) ==
    {f \in Flows : /\ flow[f].pc \in {"locked", "accessed"}
                   /\ FileOf(Head(flow[f].plan)) = file}

\* C14: with requests handled concurrently, at most one flow is inside a
\* store's lock and at the store at a time; the account creation, login, blog
\* and private Kontrollers share the one lock of the accounts store; a flow
\* holds a lock for one query or write only, one lock at a time, and holds
\* none when its handler is about to return or has returned.
C14_StoreLocksExclusive ==
    /\ \A file \in Files :
            /\ Cardinality(Inside(file)) <= 1
            /\ Cardinality(Accessing(file)) <= 1
    /\ LET shared == Entry(registry, "PrivateKontroller").database
       IN  /\ Entry(registry, "CreateAccountKontroller").database = shared
           /\ Entry(registry, "LoginKontroller").database = shared
           /\ Entry(registry, "CreateBlogPostKontroller").accounts_database = shared
    /\ \A f \in Flows :
            LET mine == {h \in DOMAIN held : f \in held[h]}
            IN  /\ Cardinality(mine) <= 1
                /\ flow[f].pc \in {"locked", "accessed"} <=> mine # {}
                /\ mine # {} => mine = {Head(flow[f].plan)}
                /\ flow[f].pc \in {"idle", "run"} => mine = {}

C14_Witness ==
    \E f, g \in Flows :
        /\ f # g
        /\ f \in held["accounts"]
        /\ flow[f].kontroller = "PrivateKontroller"
        /\ flow[g].kontroller = "CreateAccountKontroller"
        /\ flow[g].pc = "run" /\ flow[g].plan = <<"accounts">>

\* C18: one evaluation of PrivateKontroller's gate ends in one of four
\* states: without passport the store was not queried and the response is
\* Unauthorized; with a passport the store was queried exactly once, also
\* after a failed lookup, and the response follows that one lookup.
C18_OneGatePass ==
    [][\A f \in Flows :
        (/\ flow[f].kontroller = "PrivateKontroller"
         /\ flow[f].pc = "run" /\ flow[f].plan = <<>>
         /\ flow'[f].pc = "idle")
        => LET me == flow[f]
           IN  /\ last'.kontroller = "PrivateKontroller"
               /\ me.kpassport = None
                    => /\ me.queries = 0 /\ me.lookup = "None"
                       /\ last'.response = unauthorized
               /\ me.kpassport # None
                    => /\ me.queries = 1
                       /\ me.lookup \in {"Err", "OkFalse", "OkTrue"}
                       /\ me.lookup = "Err" => last'.response = internal
                       /\ me.lookup = "OkFalse" => last'.response = unauthorized
                       /\ me.lookup = "OkTrue" => last'.response = json_hello]_vars

C18_Witness ==
    /\ last.kontroller = "PrivateKontroller"
    /\ last.queries = 1
    /\ last.response = internal
    /\ \A f \in Flows : flow[f].pc = "idle"

\* a request to the i-th registered route is dispatched to its Kontroller and
\* answered
Answered(i) ==
    \E c \in {Prober} :
        /\ \/ HandlerPanics(c, registry[i].kontroller, "outside")
           \/ Sound("PrivateKontroller", c) /\ Private(c)
           \/ \E e \in Emails :
                Sound("SubscribeNewsletterKontroller", c) /\ Newsletter(c, e)
        /\ last'.kontroller = registry[i].kontroller
        /\ last'.method = registry[i].method /\ last'.path = registry[i].address
        /\ last'.response # NoResponse

\* C15: the panic of a handler is answered with the Internal error response
\* and never stops the serving loop: after it every request can still be
\* issued, is dispatched by kroute and is answered.
C15_PanicCaught ==
    /\ [](loop # "stopped")
    /\ [](loop = "recovered" => \A i \in 1..Len(registry) : ENABLED Answered(i))
    /\ [][/\ (last'.panicked /\ last' # last)
              => last'.response = internal /\ loop' = "recovered"
          /\ loop = "recovered"
              => /\ last'.response # NoResponse
                 /\ last'.kontroller = kroute(registry, last'.method, last'.path)]_vars

C15_Witness ==
    /\ loop = "recovered"
    /\ "newsletter" \in poisoned
    /\ ~last.panicked
    /\ last.kontroller = "PrivateKontroller"
    /\ last.response = json_hello

\* C19: the Kontrollers are registered once, by the one kroute call, and only
\* after the accounts, blogs and newsletter databases were connected in that
\* order; when a connect fails the process aborts with no Kontroller
\* registered and no request served; requests are served only after that.
C19_RegisterAfterConnect ==
    /\ [](/\ main.kroutes <= 1
          /\ \E n \in 0..Len(Started.connected) :
                main.connected = SubSeq(Started.connected, 1, n)
          /\ (registry # <<>> \/ main.kroutes > 0 \/ main.pc = "serving")
                => /\ main.connected = Started.connected
                   /\ main.kroutes = 1
                   /\ registry = Kontrollers
          /\ main.pc = "aborted"
                => registry = <<>> /\ main.kroutes = 0 /\ last = Idle
          /\ IsRequest(last) => main.pc = "serving")
    /\ [][registry' # registry => registry = <<>> /\ main.kroutes = 0]_vars

C19_Witness ==
    /\ main.kroutes = 1
    /\ main.connected = <<"accounts", "blogs", "newsletter">>
    /\ last.kontroller = "SubscribeNewsletterKontroller"
    /\ last.response = created

C20_TestsIndependent ==
    storeUp => \A t \in Tests : test[t].verdict # "failed"

====
